---- MODULE Spec2Model ----
(***************************************************************************)
(* Titan stats (titan/stats/stats.py): counters, the per-request           *)
(* aggregator (_RequestProcessor), the batch aggregator (_BatchProcessor)  *)
(* and the merge of finalized counters into the stored window series       *)
(* (_BatchProcessor._save_aggregate_data).                                 *)
(*                                                                         *)
(* Numbers: a counter value is a non-negative rational <<n, d>> in lowest  *)
(* terms (Python ints are d = 1; Python floats are taken as exact).        *)
(* Python values: a number is [t |-> "num"], the pair an AverageCounter    *)
(* finalizes to is [t |-> "tuple"], and what json.loads gives back for it  *)
(* is [t |-> "list"].                                                      *)
(***************************************************************************)
EXTENDS Integers, Sequences, FiniteSets, TLC

\* ------------------------------------------------------------------ bounds
MaxRecords == 2      \* process() calls on one batch processor
MaxPasses == 2       \* batch processors run one after the other
MaxStarts == 3       \* merge passes started by the two concurrent tasks
MaxCalls == 2        \* process() calls on one request processor
MaxCounters == 3     \* counters logged in one request
MaxPartials == 3     \* offset() and aggregate() calls on one counter object
MaxStops == 4        \* stop() calls that record a duration
MaxFinalize == 2     \* finalize() calls in a row
MaxTimestamp == 45   \* largest timestamp given to _get_window
MaxWindowSize == 6   \* largest small window size given to _get_window

\* --------------------------------------------------------------- constants
DEFAULT_WINDOW_SIZE == 60
SecondsPerDay == 86400
None == -1

\* ------------------------------------------------------------- arithmetic
RECURSIVE Gcd(_, _)
Gcd(a, b) == IF b = 0 THEN a ELSE Gcd(b, a % b)

Rat(n, d) == IF n = 0 THEN <<0, 1>> ELSE <<n \div Gcd(n, d), d \div Gcd(n, d)>>

RatAdd(p, q) == Rat(p[1] * q[2] + q[1] * p[2], p[2] * q[2])

RatScale(p, k) == Rat(p[1] * k, p[2])

RatDivInt(p, k) == Rat(p[1], p[2] * k)

\* ---------------------------------------------------------- python values
PyNum(q) == [t |-> "num", v |-> q, w |-> 0]

PyTuple(q, weight) == [t |-> "tuple", v |-> q, w |-> weight]

PyList(q, weight) == [t |-> "list", v |-> q, w |-> weight]

PyNe_always(x, y) == TRUE

\* old_value != counter.finalize(): a list never equals a tuple
PyNe(x, y) ==
  IF x.t = "num" /\ y.t = "num" THEN x.v # y.v
  ELSE IF x.t = y.t THEN x.v # y.v \/ x.w # y.w
  ELSE TRUE

\* json.loads(json.dumps(value)): tuples come back as lists
JsonValue(x) == IF x.t = "tuple" THEN PyList(x.v, x.w) ELSE x

JsonRoundTrip(content) ==
  [i \in 1..Len(content) |->
     [window |-> content[i].window, value |-> JsonValue(content[i].value)]]

\* ---------------------------------------------------------------- counters
NewCounter(name, kind) ==
  [name |-> name, kind |-> kind, timestamp |-> None, value |-> <<0, 1>>, weight |-> 0]

overwrite_always(counter) == TRUE

overwrite_never(counter) == FALSE

overwrite(counter) == counter.kind = "StaticCounter"

Counter_offset(counter, value) == [counter EXCEPT !.value = RatAdd(@, value)]

AverageCounter_aggregate_unweighted(counter, value, weight) ==
  IF weight = 0 THEN counter
  ELSE [counter EXCEPT !.value = RatDivInt(RatAdd(counter.value, value), 2),
                       !.weight = counter.weight + weight]

AverageCounter_aggregate_takes_empty(counter, value, weight) ==
  IF counter.weight + weight = 0 THEN [counter EXCEPT !.value = value]
  ELSE [counter EXCEPT
          !.value = RatDivInt(RatAdd(RatScale(counter.value, counter.weight),
                                     RatScale(value, weight)),
                              counter.weight + weight),
          !.weight = counter.weight + weight]

AverageCounter_aggregate(counter, value, weight) ==
  IF weight = 0 THEN counter
  ELSE [counter EXCEPT
          !.value = RatDivInt(RatAdd(RatScale(counter.value, counter.weight),
                                     RatScale(value, weight)),
                              counter.weight + weight),
          !.weight = counter.weight + weight]

StaticCounter_aggregate(counter, value) == [counter EXCEPT !.value = value]

IsAverage(counter) == counter.kind \in {"AverageCounter", "AverageTimingCounter"}

aggregate(counter, pyvalue) ==
  CASE counter.kind = "Counter" -> Counter_offset(counter, pyvalue.v)
    [] IsAverage(counter) -> AverageCounter_aggregate(counter, pyvalue.v, pyvalue.w)
    [] counter.kind = "StaticCounter" -> StaticCounter_aggregate(counter, pyvalue.v)

\* Counter.offset, and AverageCounter.offset: aggregate((value, 1))
offset(counter, value) ==
  IF IsAverage(counter) THEN AverageCounter_aggregate(counter, value, 1)
  ELSE Counter_offset(counter, value)

\* int(x): the integer part, towards zero
int(q) == IF q[1] >= 0 THEN q[1] \div q[2] ELSE -((-q[1]) \div q[2])

finalize(counter) ==
  CASE counter.kind = "AverageCounter" -> PyTuple(counter.value, counter.weight)
    [] counter.kind = "AverageTimingCounter" ->
         PyTuple(<<int(counter.value), 1>>, counter.weight)
    [] OTHER -> PyNum(counter.value)

finalize_effect_reset(counter) == [counter EXCEPT !.value = <<0, 1>>, !.weight = 0]

\* what finalize() assigns: nothing
finalize_effect(counter) == counter

start_assert_off(s) == TRUE

\* assert self._start is None
start_assert(s) == s = None

\* assert self._start is not None
stop_assert(s) == s # None

\* AverageTimingCounter.finalize asserts; the other kinds have no _start
finalize_assert(counter, s) == counter.kind = "AverageTimingCounter" => s = None

\* ------------------------------------------------------------------ windows
get_window_floor(timestamp, window_size) == window_size * (timestamp \div window_size)

get_window(timestamp, window_size) ==
  window_size * ((2 * timestamp + window_size) \div (2 * window_size))

\* ------------------------------------------------------ inputs of the model
\* counters_func: the counters the application declares
Factory ==
  << NewCounter("a", "Counter"),
     NewCounter("m", "AverageCounter"),
     NewCounter("s", "StaticCounter") >>

DeclaredNames == {Factory[i].name : i \in 1..Len(Factory)}

\* "u" is a name some request logs and counters_func does not declare
RecordNames == DeclaredNames \cup {"u"}

BatchWindows == {60, 120}

ValuesOf(name) ==
  CASE name = "m" -> {PyList(<<2, 1>>, 1), PyList(<<3, 1>>, 0)}
    [] name = "u" -> {PyNum(<<1, 1>>)}
    [] OTHER -> {PyNum(<<1, 1>>), PyNum(<<2, 1>>)}

\* one request's serialized window_counter_data, as (window, name, value)
\* triples with at most one value per (window, name)
RecordPairs ==
  {<<w, n, v>> : w \in BatchWindows, n \in RecordNames,
                 v \in UNION {ValuesOf(x) : x \in RecordNames}}

WellFormedPair(p) == p[3] \in ValuesOf(p[2])

Records ==
  {{p} : p \in {q \in RecordPairs : WellFormedPair(q)}}
  \cup {{p, q} : p \in {x \in RecordPairs : WellFormedPair(x) /\ x[2] \in {"a", "u"}},
                 q \in {x \in RecordPairs : WellFormedPair(x) /\ x[2] \in {"m", "s"}}}

RecordWindows(record) == {p[1] : p \in record}

RecordCounters(record, window) == {<<p[2], p[3]>> : p \in {q \in record : q[1] = window}}

\* the windows of the stored series: two of one day, one of the next
StoreWindows == {60, 120, 180, 86400}

\* a live batch counter as finalize() hands it to _save_aggregate_data
LiveCounter(name, value, weight) ==
  [(CHOOSE c \in {Factory[i] : i \in 1..Len(Factory)} : c.name = name)
     EXCEPT !.value = value, !.weight = weight]

LiveCounters ==
  {LiveCounter("a", <<v, 1>>, 0) : v \in {3, 5}}
  \cup {LiveCounter("m", <<2, 1>>, 1), LiveCounter("m", <<4, 1>>, 2)}
  \cup {LiveCounter("s", <<v, 1>>, 0) : v \in {1, 2}}

FinalRecords == {[window |-> w, counter |-> c] : w \in StoreWindows, c \in LiveCounters}

\* final_aggregate_data: one record, or counter "a" in two windows
FinalInputs ==
  {<<r>> : r \in FinalRecords}
  \cup {p \in {<<r1, r2>> : r1 \in FinalRecords, r2 \in FinalRecords} :
          /\ p[1].counter.name = "a"
          /\ p[2].counter.name = "a"
          /\ p[1].window # p[2].window}

\* ------------------------------------------------------------ resource key
DateOf(window) == window \div SecondsPerDay

make_log_path(window, counter) == <<DateOf(window), counter.name>>

Paths == {<<DateOf(w), n>> : w \in StoreWindows, n \in DeclaredNames}

Entry(window, value) == [window |-> window, value |-> value]

\* ------------------------------------------------------------------- state
VARIABLES
  window_counters,            \* _BatchProcessor.window_counters
  window_counters_available,  \* _BatchProcessor.window_counters_available
  files,                      \* the stored series, by resource key
  bphase,                     \* "collecting" until finalize() has run
  nrecords,                   \* process() calls on this batch processor
  npasses,                    \* batch processors finalized so far
  fed,                        \* history: values each (window, name) was sent
  prev_files,                 \* history: files before the last finalize()
  last_final,                 \* history: what the last finalize() merged
  rpc,                        \* concurrent pass: "idle", "fold", "write", "done"
  rfinal,                     \* concurrent pass: its final_aggregate_data
  ri,                         \* concurrent pass: the record the first loop is at
  rwindow_files,              \* concurrent pass: its window_files
  rread,                      \* history: what the pass read, by path
  rwritten,                   \* history: the paths the pass has written
  last_writer,                \* history: the pass that wrote each path last
  nstarted,                   \* concurrent passes started so far
  nreads,                     \* history: reads of each path by the pass
  nwrites,                    \* history: writes of each path by the pass
  final_counters,             \* _RequestProcessor.final_counters
  names_to_counters,          \* _RequestProcessor.names_to_counters, as the
                              \*   position of the counter in final_counters
  window_counter_data,        \* _RequestProcessor.window_counter_data
  default_window,             \* _RequestProcessor.default_window
  logged,                     \* history: the counters logged, as they were
  ncalls,                     \* process() calls so far
  sizes,                      \* history: the counters each call was given
  obj,                        \* one counter object: its _value and _weight
  start,                      \* AverageTimingCounter._start
  clock,                      \* time.time(), in milliseconds
  call,                       \* history: the method called last
  arg,                        \* history: its argument
  raised,                     \* history: whether it raised
  returned,                   \* history: what finalize() returned last
  returned_before,            \* history: what it returned the time before
  nfinalized,                 \* history: finalize() calls in a row
  prev_obj,                   \* history: obj before the last call
  prev_start,                 \* history: _start before the last call
  combined,                   \* history: the partials combined into obj
  wt,                         \* _get_window: timestamp
  ws,                         \* _get_window: window_size
  wout,                       \* _get_window(wt, ws)
  wagain                      \* _get_window(wout, ws)

bvars == <<window_counters, window_counters_available, bphase, nrecords, fed>>

svars == <<files, npasses, prev_files, last_final>>

rvars == <<rpc, rfinal, ri, rwindow_files, rread, rwritten, last_writer, nstarted,
           nreads, nwrites>>

uvars == <<final_counters, names_to_counters, window_counter_data, default_window,
           logged, ncalls, sizes>>

cvars == <<obj, start, clock, call, arg, raised, returned, returned_before, nfinalized,
           prev_obj, prev_start, combined>>

wvars == <<wt, ws, wout, wagain>>

vars == <<bvars, svars, rvars, uvars, cvars, wvars>>

\* ------------------------------------------------------- batch aggregator
NameIsWindowKey(name, counters_by_window) == FALSE  \* a str is never an int key

init_counters(counters_by_window) ==
  [n \in {Factory[i].name : i \in {j \in 1..Len(Factory) :
                ~NameIsWindowKey(Factory[j].name, counters_by_window)}} |->
     Factory[CHOOSE i \in 1..Len(Factory) : Factory[i].name = n]]

process_window_abort(counters_by_window, counters_data) ==
  LET fresh == init_counters(counters_by_window)
      sent(n) == {p[2] : p \in {q \in counters_data : q[1] = n}}
      failed == \E q \in counters_data : q[1] \notin DOMAIN fresh
  IN  [counters |-> [n \in DOMAIN fresh |->
                       IF sent(n) # {} /\ ~failed
                       THEN aggregate(fresh[n], CHOOSE v \in sent(n) : TRUE)
                       ELSE fresh[n]],
       available |-> {n \in DOMAIN fresh : sent(n) # {} /\ ~failed}]

\* the counters of one window after data = {window, counters} was processed
process_window(counters_by_window, counters_data) ==
  LET fresh == init_counters(counters_by_window)
      sent(n) == {p[2] : p \in {q \in counters_data : q[1] = n}}
  IN  [counters |-> [n \in DOMAIN fresh |->
                       IF sent(n) # {}
                       THEN aggregate(fresh[n], CHOOSE v \in sent(n) : TRUE)
                       ELSE fresh[n]],
       available |-> {n \in DOMAIN fresh : sent(n) # {}}]

\* the values the record carries, appended to what each (window, name) was sent
fed_after(sent, record) ==
  [k \in DOMAIN sent |->
     IF \E p \in record : <<p[1], p[2]>> = k
     THEN Append(sent[k], (CHOOSE p \in record : <<p[1], p[2]>> = k)[3])
     ELSE sent[k]]

\* _BatchProcessor.process(window_counter_data)
Process(record) ==
  /\ bphase = "collecting"
  /\ nrecords < MaxRecords
  /\ \E done \in {[w \in RecordWindows(record) |->
                     process_window(window_counters, RecordCounters(record, w))]} :
       /\ window_counters' =
            [w \in DOMAIN window_counters \cup DOMAIN done |->
               IF w \in DOMAIN done THEN done[w].counters ELSE window_counters[w]]
       /\ window_counters_available' =
            [w \in DOMAIN window_counters \cup DOMAIN done |->
               IF w \in DOMAIN done THEN done[w].available
               ELSE window_counters_available[w]]
  /\ fed' = fed_after(fed, record)
  /\ nrecords' = nrecords + 1
  /\ UNCHANGED <<bphase, svars, rvars, uvars, cvars, wvars>>

\* ------------------------------------------------------ persistence merge
\* content.sort(key=lambda tup: tup[0]): a stable insertion sort
RECURSIVE InsertByWindow(_, _)
InsertByWindow(sorted, e) ==
  IF sorted = <<>> THEN <<e>>
  ELSE IF sorted[Len(sorted)].window <= e.window THEN Append(sorted, e)
  ELSE Append(InsertByWindow(SubSeq(sorted, 1, Len(sorted) - 1), e), sorted[Len(sorted)])

RECURSIVE SortByWindow(_)
SortByWindow(content) ==
  IF content = <<>> THEN <<>>
  ELSE InsertByWindow(SortByWindow(SubSeq(content, 1, Len(content) - 1)),
                      content[Len(content)])

\* the loop over old_content, from its i-th entry on
RECURSIVE merge_loop(_, _, _, _, _, _)
merge_loop(old_content, i, window, counter, window_exists, content) ==
  IF i > Len(old_content)
  THEN [content |-> content, counter |-> counter, window_exists |-> window_exists]
  ELSE
    LET old_window == old_content[i].window
        insert == old_window > window /\ ~window_exists
        content1 == IF insert THEN Append(content, Entry(window, finalize(counter)))
                    ELSE content
        same == old_window = window
        differs == same /\ PyNe(old_content[i].value, finalize(counter))
        counter1 == IF differs /\ ~overwrite(counter)
                    THEN aggregate(counter, old_content[i].value)
                    ELSE counter
        old_value == IF differs THEN finalize(counter1) ELSE old_content[i].value
    IN  merge_loop(old_content, i + 1, window, counter1,
                   window_exists \/ insert \/ same,
                   Append(content1, Entry(old_window, old_value)))

merge_counter_append(old_content, window, counter) ==
  [content |-> Append(old_content, Entry(window, finalize(counter))), counter |-> counter]

merge_counter_replace(old_content, window, counter) ==
  [content |-> <<Entry(window, finalize(counter))>>, counter |-> counter]

\* one (window, counter) folded into the content held for its path
merge_counter(old_content, window, counter) ==
  LET m == merge_loop(old_content, 1, window, counter, FALSE, <<>>)
      content == IF ~m.window_exists
                 THEN Append(m.content, Entry(window, finalize(m.counter)))
                 ELSE m.content
  IN  [content |-> SortByWindow(content), counter |-> m.counter]

\* files.File(path).exists / json.loads(titan_file.content)
read_file(store, path) == IF store[path].exists THEN store[path].content ELSE <<>>

\* one turn of the first loop of _save_aggregate_data: the i-th record is
\* folded into the content held for its path, which is read on first use
in_window_files_never(path, window_files) == FALSE

\* path in window_files: the file of this path was read earlier in the pass
in_window_files(path, window_files) == path \in DOMAIN window_files

save_step(store, final_aggregate_data, i, window_files) ==
  LET rec == final_aggregate_data[i]
      path == make_log_path(rec.window, rec.counter)
      loaded == IF in_window_files(path, window_files) THEN window_files
                ELSE (path :> read_file(store, path)) @@ window_files
      m == merge_counter(loaded[path], rec.window, rec.counter)
  IN  [window_files |-> [loaded EXCEPT ![path] = m.content],
       final |-> [final_aggregate_data EXCEPT ![i].counter = m.counter]]

\* the first loop of _save_aggregate_data, from the i-th record on
RECURSIVE save_fold(_, _, _, _)
save_fold(store, final_aggregate_data, i, window_files) ==
  IF i > Len(final_aggregate_data)
  THEN [window_files |-> window_files, final |-> final_aggregate_data]
  ELSE LET step == save_step(store, final_aggregate_data, i, window_files)
       IN  save_fold(store, step.final, i + 1, step.window_files)

written_merged(old, content) ==
  [exists |-> TRUE,
   content |-> SortByWindow(
       SelectSeq(old.content,
                 LAMBDA e : \A j \in 1..Len(content) : content[j].window # e.window)
       \o JsonRoundTrip(content))]

\* file.write(content=json.dumps(content)): the whole series is replaced
written(old, content) == [exists |-> TRUE, content |-> JsonRoundTrip(content)]

\* the second loop: every path in window_files is written
write_files(store, window_files) ==
  [p \in DOMAIN store |->
     IF p \in DOMAIN window_files THEN written(store[p], window_files[p]) ELSE store[p]]

save_aggregate_data(store, final_aggregate_data) ==
  LET folded == save_fold(store, final_aggregate_data, 1, <<>>)
  IN  [files |-> write_files(store, folded.window_files), final |-> folded.final]

\* ---------------------------------------------------------------- finalize
RECURSIVE SeqOfSet(_)
SeqOfSet(S) ==
  IF S = {} THEN <<>>
  ELSE LET x == CHOOSE y \in S : \A z \in S : y <= z
       IN  <<x>> \o SeqOfSet(S \ {x})

Orders(S) ==
  {o \in [1..Cardinality(S) -> S] : \A i, j \in 1..Cardinality(S) : i # j => o[i] # o[j]}

window_records_all(counters_by_window, available, window) ==
  [k \in 1..Len(Factory) |->
     [window |-> window, counter |-> counters_by_window[window][Factory[k].name]]]

\* aggregate_data of one window: the touched counters, in counters_func order
window_records(counters_by_window, available, window) ==
  LET idx == {i \in 1..Len(Factory) :
                /\ Factory[i].name \in DOMAIN counters_by_window[window]
                /\ Factory[i].name \in available[window]}
      order == SeqOfSet(idx)
  IN  [k \in 1..Len(order) |->
         [window |-> window,
          counter |-> counters_by_window[window][Factory[order[k]].name]]]

RECURSIVE collect_final(_, _, _, _)
collect_final(counters_by_window, available, window_order, i) ==
  IF i > Len(window_order) THEN <<>>
  ELSE window_records(counters_by_window, available, window_order[i])
       \o collect_final(counters_by_window, available, window_order, i + 1)

FinalSet(final_aggregate_data) ==
  {[window |-> final_aggregate_data[k].window,
    name |-> final_aggregate_data[k].counter.name,
    kind |-> final_aggregate_data[k].counter.kind,
    value |-> finalize(final_aggregate_data[k].counter)] :
     k \in 1..Len(final_aggregate_data)}

\* the live counters after _save_aggregate_data folded old values into them
counters_after(counters_by_window, final) ==
  [w \in DOMAIN counters_by_window |->
     [n \in DOMAIN counters_by_window[w] |->
        IF \E k \in 1..Len(final) : final[k].window = w /\ final[k].counter.name = n
        THEN final[CHOOSE k \in 1..Len(final) :
                     final[k].window = w /\ final[k].counter.name = n].counter
        ELSE counters_by_window[w][n]]]

Finalize ==
  /\ bphase = "collecting"
  /\ \E window_order \in Orders(DOMAIN window_counters) :
       \E final_aggregate_data \in
            {collect_final(window_counters, window_counters_available, window_order, 1)} :
         \E saved \in {save_aggregate_data(files, final_aggregate_data)} :
           /\ files' = IF final_aggregate_data # <<>> THEN saved.files ELSE files
           /\ window_counters' =
                IF final_aggregate_data # <<>>
                THEN counters_after(window_counters, saved.final)
                ELSE window_counters
           /\ last_final' = FinalSet(final_aggregate_data)
           /\ npasses' = IF final_aggregate_data # <<>> THEN npasses + 1 ELSE npasses
  /\ prev_files' = files
  /\ bphase' = "finalized"
  /\ UNCHANGED <<window_counters_available, nrecords, fed, rvars, uvars, cvars, wvars>>

\* a merge pass of its own: _save_aggregate_data on a batch's finalized counters
SaveAggregateData(final_aggregate_data) ==
  /\ npasses < MaxPasses
  /\ files' = save_aggregate_data(files, final_aggregate_data).files
  /\ prev_files' = files
  /\ last_final' = FinalSet(final_aggregate_data)
  /\ npasses' = npasses + 1
  /\ UNCHANGED <<bvars, rvars, uvars, cvars, wvars>>

\* ------------------------------------- merge passes running concurrently
\* Two tasks run _save_aggregate_data at once. A pass touches the store when
\* it reads a file (first use of a path in the first loop) and when it writes
\* one (second loop); each of these is one step.
Passes == {1, 2}

RaceInputs ==
  {f \in FinalInputs :
     /\ \A k \in 1..Len(f) : f[k].window \in {60, 120}
     /\ f[1].counter.name # "a" => f[1].window = 60
     /\ Len(f) = 2 => f[1].counter.value = <<3, 1>> /\ f[2].counter.value = <<5, 1>>}

StartPass(p, final_aggregate_data) ==
  /\ rpc[p] \in {"idle", "done"}
  /\ nstarted < MaxStarts
  /\ nstarted' = nstarted + 1
  /\ rpc' = [rpc EXCEPT ![p] = "fold"]
  /\ rfinal' = [rfinal EXCEPT ![p] = final_aggregate_data]
  /\ ri' = [ri EXCEPT ![p] = 1]
  /\ rwindow_files' = [rwindow_files EXCEPT ![p] = <<>>]
  /\ rread' = [rread EXCEPT ![p] = <<>>]
  /\ rwritten' = [rwritten EXCEPT ![p] = {}]
  /\ nreads' = [nreads EXCEPT ![p] = [k \in Paths |-> 0]]
  /\ nwrites' = [nwrites EXCEPT ![p] = [k \in Paths |-> 0]]
  /\ UNCHANGED <<bvars, svars, last_writer, uvars, cvars, wvars>>

FoldRecord(p) ==
  /\ rpc[p] = "fold"
  /\ \E step \in {save_step(files, rfinal[p], ri[p], rwindow_files[p])} :
       /\ rwindow_files' = [rwindow_files EXCEPT ![p] = step.window_files]
       /\ rfinal' = [rfinal EXCEPT ![p] = step.final]
  /\ \E path \in {make_log_path(rfinal[p][ri[p]].window, rfinal[p][ri[p]].counter)} :
       /\ rread' = [rread EXCEPT ![p] =
                      IF in_window_files(path, rwindow_files[p]) THEN @
                      ELSE (path :> read_file(files, path)) @@ @]
       /\ nreads' = [nreads EXCEPT ![p][path] =
                       IF in_window_files(path, rwindow_files[p]) THEN @ ELSE @ + 1]
  /\ ri' = [ri EXCEPT ![p] = @ + 1]
  /\ rpc' = [rpc EXCEPT ![p] = IF ri[p] = Len(rfinal[p]) THEN "write" ELSE "fold"]
  /\ UNCHANGED <<bvars, svars, rwritten, last_writer, nstarted, nwrites, uvars, cvars,
                 wvars>>

WriteFile(p, path) ==
  /\ rpc[p] = "write"
  /\ path \in DOMAIN rwindow_files[p] \ rwritten[p]
  /\ files' = [files EXCEPT ![path] = written(files[path], rwindow_files[p][path])]
  /\ rwritten' = [rwritten EXCEPT ![p] = @ \cup {path}]
  /\ last_writer' = [last_writer EXCEPT ![path] = p]
  /\ nwrites' = [nwrites EXCEPT ![p][path] = @ + 1]
  /\ rpc' = [rpc EXCEPT ![p] =
               IF rwritten'[p] = DOMAIN rwindow_files[p] THEN "done" ELSE "write"]
  /\ UNCHANGED <<bvars, npasses, prev_files, last_final, rfinal, ri, rwindow_files,
                 rread, nstarted, nreads, uvars, cvars, wvars>>

\* ---------------------------------------------------- per-request aggregator
\* the counters a request logs: name, kind, explicit timestamp, value
LoggedCounter(name, kind, timestamp, value, weight) ==
  [name |-> name, kind |-> kind, timestamp |-> timestamp, value |-> value,
   weight |-> weight]

LoggedCounters ==
  {LoggedCounter("a", "Counter", ts, <<v, 1>>, 0) : ts \in {None, 60, 100}, v \in {3, 4}}
  \cup {LoggedCounter("m", "AverageCounter", None, <<v, 1>>, 1) : v \in {10, 20}}
  \cup {LoggedCounter("s", "StaticCounter", None, <<v, 1>>, 0) : v \in {1, 2}}

\* time.time() when the request processor is created
NowTimes == {30, 90}

CounterLists(k) == [1..k -> LoggedCounters]

dedup_step_first_only(counter, finals, names) ==
  IF counter.name \notin DOMAIN names
  THEN [final_counters |-> Append(finals, counter),
        names_to_counters |-> (counter.name :> Len(finals) + 1) @@ names]
  ELSE IF counter.timestamp # None
  THEN [final_counters |-> Append(finals, counter), names_to_counters |-> names]
  ELSE [final_counters |-> finals, names_to_counters |-> names]

\* one turn of the loop over activity.counters
dedup_step(counter, finals, names) ==
  IF counter.name \notin DOMAIN names
  THEN [final_counters |-> Append(finals, counter),
        names_to_counters |-> (counter.name :> Len(finals) + 1) @@ names]
  ELSE IF counter.timestamp # None
  THEN [final_counters |-> Append(finals, counter), names_to_counters |-> names]
  ELSE [final_counters |->
          [finals EXCEPT ![names[counter.name]] = aggregate(@, finalize(counter))],
        names_to_counters |-> names]

RECURSIVE dedup(_, _, _, _)
dedup(counters, i, finals, names) ==
  IF i > Len(counters) THEN [final_counters |-> finals, names_to_counters |-> names]
  ELSE LET step == dedup_step(counters[i], finals, names)
       IN  dedup(counters, i + 1, step.final_counters, step.names_to_counters)

\* the bucket key of a counter
counter_window(counter, default) ==
  IF counter.timestamp = None THEN default ELSE counter.timestamp

bucket_step_adds(counter, default, data) ==
  LET window == counter_window(counter, default)
      counters == IF window \in DOMAIN data THEN data[window] ELSE <<>>
      value == IF counter.name \in DOMAIN counters
               THEN [finalize(counter) EXCEPT !.v = RatAdd(@, counters[counter.name].v)]
               ELSE finalize(counter)
  IN  (window :> ((counter.name :> value) @@ counters)) @@ data

\* one turn of the loop over self.final_counters
bucket_step(counter, default, data) ==
  LET window == counter_window(counter, default)
      counters == IF window \in DOMAIN data THEN data[window] ELSE <<>>
  IN  (window :> ((counter.name :> finalize(counter)) @@ counters)) @@ data

RECURSIVE bucket(_, _, _, _)
bucket(finals, i, default, data) ==
  IF i > Len(finals) THEN data
  ELSE bucket(finals, i + 1, default, bucket_step(finals[i], default, data))

\* _RequestProcessor.process(activity)
UnitProcess(counters) ==
  /\ ncalls < MaxCalls
  /\ ncalls' = ncalls + 1
  /\ logged' = logged \o counters
  /\ sizes' = Append(sizes, Len(counters))
  /\ IF counters = <<>>
     THEN UNCHANGED <<final_counters, names_to_counters, window_counter_data>>
     ELSE LET d == dedup(counters, 1, final_counters, names_to_counters)
          IN  /\ final_counters' = d.final_counters
              /\ names_to_counters' = d.names_to_counters
              /\ window_counter_data' =
                   bucket(d.final_counters, 1, default_window, window_counter_data)
  /\ UNCHANGED <<bvars, svars, rvars, default_window, cvars, wvars>>

\* ------------------------------------------------------ one counter object
CounterKinds == {"Counter", "AverageCounter", "StaticCounter", "AverageTimingCounter"}

Values == {10, 20}

Weights == {0, 1, 2}

\* milliseconds between start() and stop()
Durations == {1, 2}

Partials(kind) ==
  IF kind = "AverageCounter"
  THEN {PyTuple(<<v, 1>>, w) : v \in Values, w \in Weights}
  ELSE {PyNum(<<v, 1>>) : v \in Values}

NoValue == [t |-> "none", v |-> <<0, 1>>, w |-> 0]

\* history of a call: its name and argument, whether it returned, and the
\* object as it was before
Called(name, a, ok) ==
  /\ call' = name
  /\ arg' = a
  /\ raised' = ~ok
  /\ prev_obj' = obj
  /\ prev_start' = start

\* counter.offset(value)
CallOffset(v) ==
  /\ obj.kind # "AverageTimingCounter"
  /\ Len(combined) < MaxPartials
  /\ obj' = offset(obj, <<v, 1>>)
  /\ combined' = Append(combined, IF IsAverage(obj) THEN PyTuple(<<v, 1>>, 1)
                                  ELSE PyNum(<<v, 1>>))
  /\ Called("offset", PyNum(<<v, 1>>), TRUE)
  /\ nfinalized' = 0
  /\ UNCHANGED <<start, clock, returned, returned_before>>
  /\ UNCHANGED <<bvars, svars, rvars, uvars, wvars>>

\* counter.aggregate(value)
CallAggregate(p) ==
  /\ obj.kind # "AverageTimingCounter"
  /\ Len(combined) < MaxPartials
  /\ obj' = aggregate(obj, p)
  /\ combined' = Append(combined, p)
  /\ Called("aggregate", p, TRUE)
  /\ nfinalized' = 0
  /\ UNCHANGED <<start, clock, returned, returned_before>>
  /\ UNCHANGED <<bvars, svars, rvars, uvars, wvars>>

\* AverageTimingCounter.start()
CallStart ==
  /\ obj.kind = "AverageTimingCounter"
  /\ IF start_assert(start)
     THEN /\ start' = clock
          /\ nfinalized' = 0
          /\ Called("start", NoValue, TRUE)
     ELSE /\ Called("start", NoValue, FALSE)
          /\ UNCHANGED <<start, nfinalized>>
  /\ UNCHANGED <<obj, clock, returned, returned_before, combined>>
  /\ UNCHANGED <<bvars, svars, rvars, uvars, wvars>>

\* AverageTimingCounter.stop(), d milliseconds after start()
CallStop(d) ==
  /\ obj.kind = "AverageTimingCounter"
  /\ IF stop_assert(start)
     THEN /\ Len(combined) < MaxStops
          /\ clock' = clock + d
          /\ obj' = offset(obj, <<clock' - start, 1>>)
          /\ combined' = Append(combined, PyTuple(<<clock' - start, 1>>, 1))
          /\ start' = None
          /\ nfinalized' = 0
          /\ Called("stop", NoValue, TRUE)
     ELSE /\ Called("stop", NoValue, FALSE)
          /\ UNCHANGED <<obj, start, clock, combined, nfinalized>>
  /\ UNCHANGED <<returned, returned_before>>
  /\ UNCHANGED <<bvars, svars, rvars, uvars, wvars>>

\* counter.finalize()
CallFinalize ==
  /\ nfinalized < MaxFinalize
  /\ IF finalize_assert(obj, start)
     THEN /\ returned' = finalize(obj)
          /\ returned_before' = returned
          /\ obj' = finalize_effect(obj)
          /\ nfinalized' = nfinalized + 1
          /\ Called("finalize", NoValue, TRUE)
     ELSE /\ Called("finalize", NoValue, FALSE)
          /\ UNCHANGED <<obj, returned, returned_before, nfinalized>>
  /\ UNCHANGED <<start, clock, combined>>
  /\ UNCHANGED <<bvars, svars, rvars, uvars, wvars>>

InitObject(kind) ==
  /\ obj = NewCounter("c", kind)
  /\ start = None
  /\ clock = 0
  /\ call = "none"
  /\ arg = NoValue
  /\ raised = FALSE
  /\ returned = NoValue
  /\ returned_before = NoValue
  /\ nfinalized = 0
  /\ prev_obj = NewCounter("c", kind)
  /\ prev_start = None
  /\ combined = <<>>

\* ----------------------------------------------------------- _get_window
WindowSizes == 1..MaxWindowSize \cup {DEFAULT_WINDOW_SIZE}

GetWindow ==
  /\ wout = None
  /\ wout' = get_window(wt, ws)
  /\ UNCHANGED <<wt, ws, wagain>>
  /\ UNCHANGED <<bvars, svars, rvars, uvars, cvars>>

GetWindowAgain ==
  /\ wout # None
  /\ wagain = None
  /\ wagain' = get_window(wout, ws)
  /\ UNCHANGED <<wt, ws, wout>>
  /\ UNCHANGED <<bvars, svars, rvars, uvars, cvars>>

InitWindow(timestamp, window_size) ==
  /\ wt = timestamp
  /\ ws = window_size
  /\ wout = None
  /\ wagain = None

EmptyFiles == [p \in Paths |-> [exists |-> FALSE, content |-> <<>>]]

InitRest ==
  /\ window_counters = <<>>
  /\ window_counters_available = <<>>
  /\ bphase = "collecting"
  /\ nrecords = 0
  /\ fed = [k \in BatchWindows \X RecordNames |-> <<>>]
  /\ files = EmptyFiles
  /\ npasses = 0
  /\ prev_files = EmptyFiles
  /\ last_final = {}
  /\ rpc = [p \in Passes |-> "idle"]
  /\ rfinal = [p \in Passes |-> <<>>]
  /\ ri = [p \in Passes |-> 1]
  /\ rwindow_files = [p \in Passes |-> <<>>]
  /\ rread = [p \in Passes |-> <<>>]
  /\ rwritten = [p \in Passes |-> {}]
  /\ last_writer = [k \in Paths |-> 0]
  /\ nstarted = 0
  /\ nreads = [p \in Passes |-> [k \in Paths |-> 0]]
  /\ nwrites = [p \in Passes |-> [k \in Paths |-> 0]]
  /\ final_counters = <<>>
  /\ names_to_counters = <<>>
  /\ window_counter_data = <<>>
  /\ logged = <<>>
  /\ ncalls = 0
  /\ sizes = <<>>

\* _RequestProcessor.__init__: the default window is taken once
Init ==
  /\ InitRest
  /\ default_window = get_window(30, DEFAULT_WINDOW_SIZE)
  /\ InitObject("Counter")
  /\ InitWindow(0, DEFAULT_WINDOW_SIZE)

InitUnit ==
  /\ InitRest
  /\ \E now \in NowTimes : default_window = get_window(now, DEFAULT_WINDOW_SIZE)
  /\ InitObject("Counter")
  /\ InitWindow(0, DEFAULT_WINDOW_SIZE)

InitCounter ==
  /\ InitRest
  /\ default_window = get_window(30, DEFAULT_WINDOW_SIZE)
  /\ \E kind \in CounterKinds : InitObject(kind)
  /\ InitWindow(0, DEFAULT_WINDOW_SIZE)

InitGetWindow ==
  /\ InitRest
  /\ default_window = get_window(30, DEFAULT_WINDOW_SIZE)
  /\ InitObject("Counter")
  /\ \E timestamp \in 0..MaxTimestamp, window_size \in WindowSizes :
       InitWindow(timestamp, window_size)

\* sequential merge passes over the stored series
Next == \E final_aggregate_data \in FinalInputs : SaveAggregateData(final_aggregate_data)

Spec == Init /\ [][Next]_vars

\* one batch processor: process() per request record, then finalize()
NextBatch ==
  \/ \E record \in Records : Process(record)
  \/ Finalize

SpecBatch == Init /\ [][NextBatch]_vars

\* two tasks merging at once
NextRace ==
  \/ \E p \in Passes, final_aggregate_data \in RaceInputs :
       StartPass(p, final_aggregate_data)
  \/ \E p \in Passes : FoldRecord(p)
  \/ \E p \in Passes, path \in Paths : WriteFile(p, path)

SpecRace == Init /\ [][NextRace]_vars

\* one request: process() once per logged activity
NextUnit ==
  \E k \in 0..(MaxCounters - Len(logged)) :
    \E counters \in CounterLists(k) : UnitProcess(counters)

SpecUnit == InitUnit /\ [][NextUnit]_vars

\* one counter object and the calls of its class
NextCounter ==
  \/ \E v \in Values : CallOffset(v)
  \/ \E p \in Partials(obj.kind) : CallAggregate(p)
  \/ CallStart
  \/ \E d \in Durations : CallStop(d)
  \/ CallFinalize

SpecCounter == InitCounter /\ [][NextCounter]_vars

\* _get_window on a timestamp, and again on its result
NextGetWindow == GetWindow \/ GetWindowAgain

SpecGetWindow == InitGetWindow /\ [][NextGetWindow]_vars

\* ================================================================== claims
WindowsOf(content) == {content[i].window : i \in 1..Len(content)}

ValuesAt(content, window) ==
  {content[i].value : i \in {j \in 1..Len(content) : content[j].window = window}}

PathOf(r) == <<DateOf(r.window), r.name>>

\* the records of the last pass that found an entry for their window
Remerged == {r \in last_final : r.window \in WindowsOf(prev_files[PathOf(r)].content)}

OldValue(r) == CHOOSE v \in ValuesAt(prev_files[PathOf(r)].content, r.window) : TRUE

RECURSIVE CombineAll(_, _)
CombineAll(counter, values) ==
  IF values = <<>> THEN counter
  ELSE CombineAll(aggregate(counter, Head(values)), Tail(values))

FactoryCounter(name) == CHOOSE c \in {Factory[i] : i \in 1..Len(Factory)} : c.name = name

\* C1: while a batch collects, the live counter of each (window, name) holds
\* the combine of every value the processed records carried for it, and the
\* name is marked touched when any record carried a value for it.
C1_LiveCounterHoldsEveryRecord ==
  bphase = "collecting" =>
    \A w \in DOMAIN window_counters :
      \A n \in DeclaredNames :
        /\ window_counters[w][n] = CombineAll(FactoryCounter(n), fed[<<w, n>>])
        /\ (fed[<<w, n>>] # <<>>) => n \in window_counters_available[w]

\* C2: after any sequence of merge passes from an empty store every stored
\* series is strictly ascending by window, with no window twice.
C2_SeriesStrictlyAscending ==
  \A p \in Paths :
    \A i, j \in 1..Len(files[p].content) :
      i < j => files[p].content[i].window < files[p].content[j].window

\* window 120 was stored first, the last pass merged window 60 alone
C2_Witness ==
  /\ last_final = {[window |-> 60, name |-> "a", kind |-> "Counter",
                    value |-> PyNum(<<3, 1>>)]}
  /\ prev_files[<<0, "a">>].content = <<Entry(120, PyNum(<<5, 1>>))>>
  /\ files[<<0, "a">>].content =
       <<Entry(60, PyNum(<<3, 1>>)), Entry(120, PyNum(<<5, 1>>))>>

\* C3: a merge pass keeps every stored entry whose window it does not merge,
\* window and value unchanged, and leaves an entry for every window it merges.
C3_NoStoredDataLost ==
  /\ \A p \in Paths :
       \A i \in 1..Len(prev_files[p].content) :
         LET e == prev_files[p].content[i]
         IN  (~\E r \in last_final : PathOf(r) = p /\ r.window = e.window)
             => \E j \in 1..Len(files[p].content) : files[p].content[j] = e
  /\ \A r \in last_final : r.window \in WindowsOf(files[PathOf(r)].content)

\* a pass merged one window into a series that held two other windows, one
\* of them later than the merged one
C3_Witness ==
  \E r \in last_final :
    /\ Cardinality(WindowsOf(prev_files[PathOf(r)].content) \ {r.window}) >= 2
    /\ \E w \in WindowsOf(prev_files[PathOf(r)].content) : w > r.window
    /\ Cardinality(last_final) = 1
    /\ Len(files[PathOf(r)].content) = Len(prev_files[PathOf(r)].content) + 1

\* C4 as stated: merging a Sum value equal to the stored one doubles it.
C4_SameSumDoubles ==
  \A r \in Remerged :
    (r.kind = "Counter" /\ OldValue(r) = r.value)
    => ValuesAt(files[PathOf(r)].content, r.window) = {PyNum(RatScale(r.value.v, 2))}

\* C4 amended: merging a Sum value equal to the one stored for the window
\* leaves the stored value as it was; the equal value is ignored, not added.
C4_SameSumIgnored ==
  \A r \in Remerged :
    (r.kind = "Counter" /\ OldValue(r) = r.value)
    => ValuesAt(files[PathOf(r)].content, r.window) = {r.value}

C4_Witness ==
  \E r \in Remerged :
    /\ r.kind = "Counter"
    /\ OldValue(r) = r.value
    /\ r.value = PyNum(<<3, 1>>)
    /\ ValuesAt(files[PathOf(r)].content, r.window) = {PyNum(<<3, 1>>)}

DiffersInValue(old, new) == old.v # new.v \/ old.w # new.w

\* C5: when the stored value for the window differs from the incoming one and
\* the kind does not overwrite, the stored entry becomes the combine of both:
\* old + new for a Counter, the weighted mean with the weights added for an
\* AverageCounter.
C5_OldAndNewCombined ==
  \A r \in Remerged :
    DiffersInValue(OldValue(r), r.value) =>
      /\ r.kind = "Counter" =>
           ValuesAt(files[PathOf(r)].content, r.window)
             = {PyNum(RatAdd(OldValue(r).v, r.value.v))}
      /\ r.kind = "AverageCounter" =>
           \E x \in ValuesAt(files[PathOf(r)].content, r.window) :
             /\ ValuesAt(files[PathOf(r)].content, r.window) = {x}
             /\ x.w = OldValue(r).w + r.value.w
             /\ RatScale(x.v, x.w)
                  = RatAdd(RatScale(OldValue(r).v, OldValue(r).w),
                           RatScale(r.value.v, r.value.w))

\* the average (2, 1) was stored and (4, 2) merged: (10/3, 3) is stored
C5_Witness ==
  \E r \in Remerged :
    /\ r.kind = "AverageCounter"
    /\ OldValue(r) = PyList(<<2, 1>>, 1)
    /\ r.value = PyTuple(<<4, 1>>, 2)
    /\ ValuesAt(files[PathOf(r)].content, r.window) = {PyList(<<10, 3>>, 3)}

\* C6: for a StaticCounter the value stored for a window after a merge is the
\* incoming one, whatever was stored before.
C6_StaticSecondWriteWins ==
  \A r \in last_final :
    r.kind = "StaticCounter"
    => ValuesAt(files[PathOf(r)].content, r.window) = {r.value}

C6_Witness ==
  \E r \in Remerged :
    /\ r.kind = "StaticCounter"
    /\ OldValue(r) = PyNum(<<2, 1>>)
    /\ r.value = PyNum(<<1, 1>>)
    /\ ValuesAt(files[PathOf(r)].content, r.window) = {PyNum(<<1, 1>>)}

\* ---------------------------------------------------------------------- C7
\* the windows a concurrent pass merges into a path
WindowsMergedBy(p, k) ==
  {rfinal[p][i].window :
     i \in {j \in 1..Len(rfinal[p]) :
              make_log_path(rfinal[p][j].window, rfinal[p][j].counter) = k}}

BothReadSame(p, q, k) ==
  /\ p # q
  /\ rpc[p] = "done"
  /\ rpc[q] = "done"
  /\ k \in DOMAIN rread[p]
  /\ k \in DOMAIN rread[q]
  /\ rread[p][k] = rread[q][k]
  /\ last_writer[k] = q

\* C7: nothing in the merge keeps two concurrent passes apart: when both have
\* read the same old series of a key and both have written it, the stored
\* series is the last writer's own series, the old one with only its update;
\* a window that only the other pass merged is missing from it.
C7_LastWriterOverwrites ==
  \A k \in Paths : \A p, q \in Passes :
    BothReadSame(p, q, k) =>
      /\ files[k].content = JsonRoundTrip(rwindow_files[q][k])
      /\ \A w \in WindowsMergedBy(p, k) \ (WindowsOf(rread[p][k]) \cup WindowsMergedBy(q, k)) :
           w \notin WindowsOf(files[k].content)

\* both passes read the stored [(60, 3)]; one merged 5 into window 60, the
\* other added window 120; the last writer's series is stored and the 5 is lost
C7_Witness ==
  \E p, q \in Passes :
    /\ BothReadSame(p, q, <<0, "a">>)
    /\ rread[p][<<0, "a">>] = <<Entry(60, PyNum(<<3, 1>>))>>
    /\ rwindow_files[p][<<0, "a">>] = <<Entry(60, PyNum(<<8, 1>>))>>
    /\ files[<<0, "a">>].content =
         <<Entry(60, PyNum(<<3, 1>>)), Entry(120, PyNum(<<5, 1>>))>>

\* both passes read the empty series; the window one of them merged is lost
C7_WitnessLostWindow ==
  \E p, q \in Passes : \E k \in Paths :
    /\ BothReadSame(p, q, k)
    /\ \E w \in WindowsMergedBy(p, k) : w \notin WindowsOf(files[k].content)

\* ------------------------------------------------------------------ C8..C10
NamesLogged == {logged[i].name : i \in 1..Len(logged)}

OfName(n) == SelectSeq(logged, LAMBDA c : c.name = n)

RECURSIVE RatSum(_)
RatSum(qs) == IF qs = <<>> THEN <<0, 1>> ELSE RatAdd(Head(qs), RatSum(Tail(qs)))

RECURSIVE IntSum(_)
IntSum(ns) == IF ns = <<>> THEN 0 ELSE Head(ns) + IntSum(Tail(ns))

\* the combine of the counters cs, all of one kind: the total of a Counter,
\* the last value of a StaticCounter, the weighted mean and the total weight
\* of an AverageCounter
CombineOf(cs) ==
  IF cs[1].kind = "Counter"
  THEN PyNum(RatSum([i \in 1..Len(cs) |-> cs[i].value]))
  ELSE IF cs[1].kind = "StaticCounter"
  THEN PyNum(cs[Len(cs)].value)
  ELSE LET weight == IntSum([i \in 1..Len(cs) |-> cs[i].weight])
           total == RatSum([i \in 1..Len(cs) |-> RatScale(cs[i].value, cs[i].weight)])
       IN  PyTuple(RatDivInt(total, weight), weight)

NoTimestamps == \A i \in 1..Len(logged) : logged[i].timestamp = None

OneBucketOfCombines ==
  /\ DOMAIN window_counter_data = {default_window}
  /\ DOMAIN window_counter_data[default_window] = NamesLogged
  /\ \A n \in NamesLogged : window_counter_data[default_window][n] = CombineOf(OfName(n))

\* C8: a request that logged counters, none of them with an explicit
\* timestamp, gives exactly one bucket, the default window, with one entry per
\* name holding the combine of all counters of that name in input order.
C8_OneBucketOfCombines ==
  (ncalls >= 1 /\ logged # <<>> /\ NoTimestamps) => OneBucketOfCombines

\* two Counters "a" of 3 and 4 give the single entry 7
C8_Witness ==
  /\ logged = <<LoggedCounter("a", "Counter", None, <<3, 1>>, 0),
                LoggedCounter("a", "Counter", None, <<4, 1>>, 0)>>
  /\ DOMAIN window_counter_data = {default_window}
  /\ window_counter_data[default_window] = ("a" :> PyNum(<<7, 1>>))

\* the later counters that carry an explicit timestamp in another window than
\* the default one, while the first counter of their name carries none
Overrides ==
  {j \in 1..Len(logged) :
     /\ logged[j].timestamp # None
     /\ get_window(logged[j].timestamp, DEFAULT_WINDOW_SIZE) # default_window
     /\ \E i \in 1..(j - 1) :
          /\ logged[i].name = logged[j].name
          /\ logged[i].timestamp = None
          /\ \A h \in 1..(i - 1) : logged[h].name # logged[i].name}

Untimestamped(n) == SelectSeq(logged, LAMBDA c : c.name = n /\ c.timestamp = None)

\* C9: a later counter with an explicit timestamp in another window is not
\* merged into the representative of its name: the default window holds the
\* representative's value, unchanged by it, and the override's own value is
\* held under the window of its timestamp.
C9_OverrideKeptInItsWindow ==
  \A j \in Overrides :
    LET n == logged[j].name
        window == get_window(logged[j].timestamp, DEFAULT_WINDOW_SIZE)
    IN  /\ default_window \in DOMAIN window_counter_data
        /\ n \in DOMAIN window_counter_data[default_window]
        /\ window_counter_data[default_window][n] = CombineOf(Untimestamped(n))
        /\ window \in DOMAIN window_counter_data
        /\ n \in DOMAIN window_counter_data[window]
        /\ window_counter_data[window][n] = finalize(logged[j])

\* C10: every bucket key is a window, a multiple of the window size: the
\* window of the explicit timestamp, or the default window.
C10_BucketKeysAreWindows ==
  /\ \A w \in DOMAIN window_counter_data : get_window(w, DEFAULT_WINDOW_SIZE) = w
  /\ ncalls >= 1 =>
       \A i \in 1..Len(logged) :
         LET window == IF logged[i].timestamp = None THEN default_window
                       ELSE get_window(logged[i].timestamp, DEFAULT_WINDOW_SIZE)
         IN  /\ window \in DOMAIN window_counter_data
             /\ logged[i].name \in DOMAIN window_counter_data[window]

\* ----------------------------------------------------------------- C11, C12
\* the window a logged counter belongs to: the window of its explicit
\* timestamp, or the default window of the request
EffectiveWindow(c) ==
  IF c.timestamp = None THEN default_window
  ELSE get_window(c.timestamp, DEFAULT_WINDOW_SIZE)

InWindow(n, window) ==
  SelectSeq(logged, LAMBDA c : c.name = n /\ EffectiveWindow(c) = window)

\* C11: when two or more counters of one name fall in the same window, the
\* entry of that window and name is the combine of all of them; none replaces
\* or drops another.
C11_SameWindowCombined ==
  ncalls >= 1 =>
    \A i \in 1..Len(logged) :
      LET n == logged[i].name
          window == EffectiveWindow(logged[i])
      IN  Len(InWindow(n, window)) >= 2 =>
            /\ window \in DOMAIN window_counter_data
            /\ n \in DOMAIN window_counter_data[window]
            /\ window_counter_data[window][n] = CombineOf(InWindow(n, window))

\* C12: the counters of a name that carry no timestamp are held, combined, in
\* the default window, whatever precedes them.  (Names with an explicit
\* timestamp inside the default window are left to C11.)
C12_UntimestampedInDefaultWindow ==
  ncalls >= 1 =>
    \A n \in NamesLogged :
      (/\ Untimestamped(n) # <<>>
       /\ InWindow(n, default_window) = Untimestamped(n)) =>
        /\ default_window \in DOMAIN window_counter_data
        /\ n \in DOMAIN window_counter_data[default_window]
        /\ window_counter_data[default_window][n] = CombineOf(Untimestamped(n))

\* ----------------------------------------------------------------- C13, C14
Touched(window) ==
  IF window \in DOMAIN window_counters_available
  THEN window_counters_available[window] ELSE {}

\* C13: a finalized batch emitted, and stored, only (window, name) pairs that
\* some processed record supplied a value for and that are marked touched;
\* when no name of any window is touched, nothing was merged and the store was
\* not written.
C13_OnlyTouchedEmitted ==
  bphase = "finalized" =>
    /\ \A r \in last_final :
         /\ fed[<<r.window, r.name>>] # <<>>
         /\ r.name \in Touched(r.window)
    /\ \A k \in Paths : \A w \in WindowsOf(files[k].content) :
         /\ w \in BatchWindows
         /\ fed[<<w, k[2]>>] # <<>>
         /\ k[2] \in Touched(w)
    /\ (\A w \in BatchWindows : Touched(w) = {}) =>
         /\ last_final = {}
         /\ npasses = 0
         /\ files = EmptyFiles

\* the factory made "a", "m" and "s" for window 60 and only "a" received
\* data: only "a" was emitted and stored
C13_Witness ==
  /\ bphase = "finalized"
  /\ Touched(60) = {"a"}
  /\ DOMAIN window_counters[60] = DeclaredNames
  /\ {r.name : r \in {x \in last_final : x.window = 60}} = {"a"}
  /\ 60 \in WindowsOf(files[<<0, "a">>].content)
  /\ files[<<0, "m">>].exists = FALSE

\* records were processed, none touched a declared name, and finalize wrote
\* nothing
C13_WitnessNothingTouched ==
  /\ bphase = "finalized"
  /\ nrecords >= 1
  /\ \A w \in BatchWindows : Touched(w) = {}
  /\ files = EmptyFiles

\* the data points of the record a process() step has just taken, read off
\* the history of what each (window, name) was sent
Processed ==
  {<<k[1], k[2], fed'[k][Len(fed'[k])]>> : k \in {x \in DOMAIN fed : fed'[x] # fed[x]}}

\* the record without the data points of undeclared names; its windows stay
Declared(record) == {p \in record : p[2] \in DeclaredNames}

\* C14: process() of a record with an undeclared name completes; the name
\* gets no live counter, is not marked touched and is not emitted; and the
\* step leaves every window as processing the same record without that data
\* point would: the other pairs are combined and marked touched.
C14_UndeclaredNameDiscarded ==
  [][/\ nrecords' # nrecords =>
         /\ \A w \in DOMAIN window_counters' :
              /\ DOMAIN window_counters'[w] = DeclaredNames
              /\ window_counters_available'[w] \subseteq DeclaredNames
         /\ \A w \in RecordWindows(Processed) :
              /\ window_counters'[w] =
                   process_window(window_counters,
                                  RecordCounters(Declared(Processed), w)).counters
              /\ window_counters_available'[w] =
                   {p[2] : p \in {q \in Declared(Processed) : q[1] = w}}
         /\ \A w \in DOMAIN window_counters \ RecordWindows(Processed) :
              /\ window_counters'[w] = window_counters[w]
              /\ window_counters_available'[w] = window_counters_available[w]
     /\ \A r \in last_final' : r.name \in DeclaredNames
    ]_vars

\* one record carried the undeclared "u" and the declared "m" for window 60:
\* "m" was combined and is marked touched, "u" left no trace
C14_Witness ==
  /\ bphase = "collecting"
  /\ nrecords = 1
  /\ fed[<<60, "u">>] # <<>>
  /\ fed[<<60, "m">>] = <<PyList(<<2, 1>>, 1)>>
  /\ Touched(60) = {"m"}
  /\ window_counters[60]["m"].value = <<2, 1>>
  /\ window_counters[60]["m"].weight = 1

\* ---------------------------------------------------------------- C15..C20
Running(s) == s # None

\* C15: a Timing counter's start() fails exactly when it is Running, stop()
\* exactly when it is not, finalize() exactly when it is; a failing call leaves
\* value, weight and running state as they were; a stop() that returns folds
\* one duration with weight 1 and leaves the counter not Running; a start()
\* that returns, also after a stop(), leaves it Running with its data unchanged.
C15_TimingStateMachine ==
  obj.kind = "AverageTimingCounter" =>
    /\ call = "start" => (raised <=> Running(prev_start))
    /\ call = "stop" => (raised <=> ~Running(prev_start))
    /\ call = "finalize" => (raised <=> Running(prev_start))
    /\ raised => (obj = prev_obj /\ start = prev_start)
    /\ (call = "start" /\ ~raised) => (Running(start) /\ obj = prev_obj)
    /\ (call = "stop" /\ ~raised) =>
         /\ ~Running(start)
         /\ obj.weight = prev_obj.weight + 1
         /\ combined # <<>>
         /\ combined[Len(combined)].w = 1
         /\ RatScale(obj.value, obj.weight) =
              RatAdd(RatScale(prev_obj.value, prev_obj.weight),
                     combined[Len(combined)].v)
    /\ (call = "finalize" /\ ~raised) => ~Running(start)

\* start() has just returned on a counter that was stopped twice before
C15_Witness ==
  /\ obj.kind = "AverageTimingCounter"
  /\ call = "start"
  /\ ~raised
  /\ Running(start)
  /\ obj.weight = 2

\* a stop() without start() has just failed on a counter holding a duration
C15_WitnessFailedStop ==
  /\ obj.kind = "AverageTimingCounter"
  /\ call = "stop"
  /\ raised
  /\ obj.weight = 1

\* C16: finalize() of a counter of any kind (a Timing counter not Running)
\* leaves the counter as it was, and a finalize() that follows another with
\* nothing combined in between returns the same value.
C16_FinalizeIdempotent ==
  (call = "finalize" /\ ~raised) =>
    /\ obj = prev_obj
    /\ start = prev_start
    /\ returned = finalize(obj)
    /\ nfinalized >= 2 => returned = returned_before

\* a Timing counter that recorded 1 ms and 2 ms was finalized twice in a row
C16_Witness ==
  /\ obj.kind = "AverageTimingCounter"
  /\ call = "finalize"
  /\ ~raised
  /\ nfinalized = 2
  /\ obj.weight = 2
  /\ obj.value = <<3, 2>>
  /\ returned = returned_before

\* C17: _get_window(t, s) is a multiple of s at most s/2 away from t, and
\* _get_window of it is the same window again.
C17_WindowNearestMultiple ==
  /\ wout # None =>
       /\ wout % ws = 0
       /\ 2 * (wout - wt) <= ws
       /\ 2 * (wt - wout) <= ws
  /\ wagain # None => wagain = wout

\* a timestamp on the half boundary: 30 with windows of 60 seconds
C17_Witness ==
  /\ wt = 30
  /\ ws = DEFAULT_WINDOW_SIZE
  /\ wout = 60
  /\ wagain = 60

TotalWeight(ps) == IntSum([i \in 1..Len(ps) |-> ps[i].w])

WeightedSum(ps) == RatSum([i \in 1..Len(ps) |-> RatScale(ps[i].v, ps[i].w)])

\* C18: an AverageCounter that combined partials of positive weight, in
\* whatever order, finalizes to their weighted mean and their total weight.
C18_AverageOfPartials ==
  (/\ obj.kind = "AverageCounter"
   /\ combined # <<>>
   /\ \A i \in 1..Len(combined) : combined[i].w > 0) =>
    finalize(obj) = PyTuple(RatDivInt(WeightedSum(combined), TotalWeight(combined)),
                            TotalWeight(combined))

\* offset(10), offset(20), finalize(): (15, 2)
C18_Witness ==
  /\ obj.kind = "AverageCounter"
  /\ combined = <<PyTuple(<<10, 1>>, 1), PyTuple(<<20, 1>>, 1)>>
  /\ prev_obj.value = <<15, 1>>
  /\ call = "finalize"
  /\ returned = PyTuple(<<15, 1>>, 2)

\* (10, 1) then (20, 2), and (20, 2) then (10, 1): 50/3 with weight 3
C18_WitnessOtherOrder ==
  /\ obj.kind = "AverageCounter"
  /\ combined = <<PyTuple(<<20, 1>>, 2), PyTuple(<<10, 1>>, 1)>>
  /\ finalize(obj) = PyTuple(<<50, 3>>, 3)

\* C19: aggregate((v, 0)) leaves an AverageCounter's value and weight as they
\* were, whatever v and whatever the counter holds.
C19_ZeroWeightNoOp ==
  (call = "aggregate" /\ IsAverage(obj) /\ arg.w = 0) => obj = prev_obj

\* (20, 0) was combined into a fresh counter
C19_Witness ==
  /\ obj.kind = "AverageCounter"
  /\ call = "aggregate"
  /\ arg = PyTuple(<<20, 1>>, 0)
  /\ combined = <<arg>>
  /\ obj = NewCounter("c", "AverageCounter")

\* (20, 0) was combined into a counter holding (10, 2)
C19_WitnessNotFresh ==
  /\ call = "aggregate"
  /\ arg = PyTuple(<<20, 1>>, 0)
  /\ obj.value = <<10, 1>>
  /\ obj.weight = 2

\* C20: finalize() of a Timing counter returns the mean duration rounded to
\* the nearest integer, with the weight.
C20_TimingFinalizeRounds ==
  (obj.kind = "AverageTimingCounter" /\ call = "finalize" /\ ~raised) =>
    returned = PyTuple(<<(2 * obj.value[1] + obj.value[2]) \div (2 * obj.value[2]), 1>>,
                       obj.weight)

\* ---------------------------------------------------------------- C21, C22
\* the resource keys the records of the pass go to
KeysOf(p) ==
  {make_log_path(rfinal[p][i].window, rfinal[p][i].counter) : i \in 1..Len(rfinal[p])}

\* the first loop of the pass is over: every record has been folded
Folded(p) == rpc[p] \in {"write", "done"}

\* C21: a merge pass reads the series of a key at most once, folds every
\* record for the key into that one series in memory, and writes the key
\* once, only after all its records are folded; a key no record goes to is
\* neither read nor written.
C21_OneReadModifyWrite ==
  \A p \in Passes : \A k \in Paths :
    /\ nreads[p][k] <= 1
    /\ nwrites[p][k] <= 1
    /\ k \notin KeysOf(p) => (nreads[p][k] = 0 /\ nwrites[p][k] = 0)
    /\ nwrites[p][k] = 1 => Folded(p)
    /\ (Folded(p) /\ k \in KeysOf(p)) =>
         /\ nreads[p][k] = 1
         /\ WindowsOf(rwindow_files[p][k]) =
              WindowsOf(rread[p][k]) \cup WindowsMergedBy(p, k)
    /\ (rpc[p] = "done" /\ k \in KeysOf(p)) => nwrites[p][k] = 1
    /\ (nwrites[p][k] = 1 /\ last_writer[k] = p) =>
         files[k].content = JsonRoundTrip(rwindow_files[p][k])

\* a pass with two records for the key of "a", windows 60 and 120, is done:
\* one read, one write, both windows in the stored series
C21_Witness ==
  \E p \in Passes :
    /\ rpc[p] = "done"
    /\ Len(rfinal[p]) = 2
    /\ KeysOf(p) = {<<0, "a">>}
    /\ WindowsMergedBy(p, <<0, "a">>) = {60, 120}
    /\ nreads[p][<<0, "a">>] = 1
    /\ nwrites[p][<<0, "a">>] = 1
    /\ last_writer[<<0, "a">>] = p
    /\ WindowsOf(files[<<0, "a">>].content) = {60, 120}

\* a fresh request processor after one process() call on counters
SingleCall(counters) ==
  IF counters = <<>>
  THEN [final_counters |-> <<>>, names_to_counters |-> <<>>,
        window_counter_data |-> <<>>]
  ELSE LET d == dedup(counters, 1, <<>>, <<>>)
       IN  [final_counters |-> d.final_counters,
            names_to_counters |-> d.names_to_counters,
            window_counter_data |-> bucket(d.final_counters, 1, default_window, <<>>)]

\* C22: after any number of process() calls the request processor holds what
\* a single call on the concatenation of their counter lists gives: names
\* seen in earlier calls stay merged, walking the earlier counters again adds
\* nothing, and a call with no counters changes nothing.
C22_CallsEqualOneCall ==
  /\ window_counter_data = SingleCall(logged).window_counter_data
  /\ final_counters = SingleCall(logged).final_counters
  /\ names_to_counters = SingleCall(logged).names_to_counters

\* two calls with one Counter "a" each, 3 and 4: one entry, 7
C22_Witness ==
  /\ sizes = <<1, 1>>
  /\ logged = <<LoggedCounter("a", "Counter", None, <<3, 1>>, 0),
                LoggedCounter("a", "Counter", None, <<4, 1>>, 0)>>
  /\ Len(final_counters) = 1
  /\ window_counter_data = (default_window :> ("a" :> PyNum(<<7, 1>>)))

\* a call with counters, then a call with none: the output is unchanged
C22_WitnessEmptyCall ==
  /\ sizes = <<2, 0>>
  /\ logged = <<LoggedCounter("a", "Counter", None, <<3, 1>>, 0),
                LoggedCounter("m", "AverageCounter", None, <<10, 1>>, 1)>>
  /\ window_counter_data =
       (default_window :> ("a" :> PyNum(<<3, 1>>) @@ "m" :> PyTuple(<<10, 1>>, 1)))

====
